---- MODULE Spec2Model ----
(***************************************************************************)
(* Model of src/server.js: the POST /webhook handler of the donation       *)
(* backend.  Each delivery of a webhook is one run of the async handler;   *)
(* an action is one synchronous segment of the handler, from the point it  *)
(* is resumed (request arrival, or the settling of the promise it awaits)  *)
(* to the next await or to the HTTP response.                              *)
(*                                                                         *)
(* The events are processor events: event.data.object is an object of the  *)
(* shape the processor sends for the event's type.  With such events no    *)
(* statement outside the inner try blocks can throw, so the catch-all of   *)
(* lines 214-217 (status 500) is never entered and has no action here.     *)
(*                                                                         *)
(* The creation endpoints (computeGrossCents, POST /create-payment-intent, *)
(* POST /create-subscription) keep their state in gw and have their own    *)
(* specifications below; the webhook specification leaves gw idle.         *)
(***************************************************************************)
EXTENDS Integers, FiniteSets, Sequences, TLC

\* ------------------------------------------------------------------ bounds
NumDeliveries == 2

Deliveries == 1..NumDeliveries

\* ------------------------------------------------------- JavaScript values
\* null / undefined of a string-valued field
Null == "null"

\* JavaScript truthiness of a string-valued (or absent) field
Truthy(s) == s \notin {Null, ""}

\* x || null
OrNull(s) == IF Truthy(s) THEN s ELSE Null

\* an absent object-valued field is the empty set, a present one a singleton
NoObj == {}

MdKeys == {"donor_name", "dedication"}

\* the object literal {}: every key reads as undefined
EmptyMd == [k \in MdKeys |-> Null]

\* x || {}
OrEmptyMd(m) == IF m = NoObj THEN EmptyMd ELSE CHOOSE x \in m : TRUE

\* ------------------------------------------------------------ input domains
Emails == {Null, "", "donor@example.org"}

MdAda == [k \in MdKeys |-> IF k = "donor_name" THEN "Ada" ELSE "In memory of G."]

Metadatas == {NoObj, {MdAda}}

Amounts == {100, 2550}

Refs == {Null, "ref_1"}

Signatures == {Null, "t=1,v1=bad", "t=1,v1=good"}

\* the one header value that matches the body under endpointSecret
ValidSignature == "t=1,v1=good"

\* event.data.object, with the fields the handler reads; a field the event's
\* type does not carry is Null / NoObj / 0
BlankObject == [customer_email |-> Null, receipt_email |-> Null, metadata |-> NoObj,
                amount_total |-> 0, amount |-> 0, amount_paid |-> 0,
                invoice |-> Null, subscription |-> Null]

CheckoutSessions ==
    {[BlankObject EXCEPT !.customer_email = e, !.metadata = m, !.amount_total = a] :
        e \in Emails, m \in Metadatas, a \in Amounts}

PaymentIntents ==
    {[BlankObject EXCEPT !.receipt_email = x[1], !.metadata = x[2], !.amount = x[3],
                         !.invoice = x[4]] :
        x \in Emails \X Metadatas \X Amounts \X Refs}

Invoices ==
    {[BlankObject EXCEPT !.customer_email = e, !.amount_paid = a, !.subscription = s] :
        e \in Emails, a \in Amounts, s \in Refs}

Events ==
         {[type |-> "checkout.session.completed", object |-> o] : o \in CheckoutSessions}
    \cup {[type |-> "payment_intent.succeeded", object |-> o] : o \in PaymentIntents}
    \cup {[type |-> "invoice.payment_succeeded", object |-> o] : o \in Invoices}
    \cup {[type |-> "charge.refunded", object |-> BlankObject]}

\* what stripe.subscriptions.retrieve resolves with
Subscriptions == [metadata : Metadatas, customer : Refs]

\* what stripe.customers.retrieve resolves with
Customers == [email : Emails]

\* process.env: an unset variable reads as the empty string here
Envs == [SENDGRID_API_KEY : {"", "SG.key"},
         INTERNAL_EMAILS : {"", "board@example.org, staff@example.org"},
         NODE_ENV : {"", "production"}]

\* --------------------------------------------------------------------- state
VARIABLES
    env,      \* process.env, fixed at start-up
    event,    \* the event the processor delivers (and may redeliver)
    req,      \* per delivery: the handler's position, locals and effects
    gw        \* the creation endpoint under way: request, position, effects

vars == <<env, event, req, gw>>

\* the states of an external call: not made, awaited, resolved, rejected
CallStates == {"none", "pending", "ok", "failed"}

IdleRequest ==
    [pc |-> "idle", sig |-> Null, status |-> 0, responses |-> 0,
     donorEmail |-> Null, md |-> EmptyMd, amount |-> 0, sub |-> NoObj,
     subLookup |-> "none", custLookup |-> "none",
     donorSend |-> "none", internalSend |-> "none",
     donorMsg |-> NoObj, internalMsg |-> NoObj]

\* ------------------------------------------------------------------- config
\* variant: only NODE_ENV=development counts as non-production
isDevOnlyDevelopment == env.NODE_ENV = "development"

isDev == env.NODE_ENV # "production"

\* ------------------------------------------------------------ handler pieces
\* res.status(code).send(): the handler is over
Respond(r, code) == [r EXCEPT !.pc = "done", !.status = code, !.responses = @ + 1]

\* x || fallback
OrDefault(s, fallback) == IF Truthy(s) THEN s ELSE fallback

\* (amount / 100).toFixed(2): dollars and two-digit cents
toFixed2(amount) == <<amount \div 100, amount % 100>>

\* INTERNAL_EMAILS.split(',').map(s => s.trim()).filter(Boolean)
Recipients(list) ==
    IF list = "board@example.org, staff@example.org"
    THEN <<"board@example.org", "staff@example.org">>
    ELSE << >>

\* ...(isDev && { mailSettings: { sandboxMode: { enable: true } } })
mailSettings == IF isDev THEN {"sandboxMode"} ELSE {}

\* the donor message: recipient, greeting, amount, dedication line, settings
donorMsg(r) ==
    [to |-> <<r.donorEmail>>,
     name |-> OrDefault(r.md.donor_name, "Friend"),
     amount |-> toFixed2(r.amount),
     email |-> r.donorEmail,
     dedication |-> OrDefault(r.md.dedication, ""),
     mailSettings |-> mailSettings]

\* the internal message: recipients, name, amount, donor email, dedication line
internalMsg(r) ==
    [to |-> Recipients(env.INTERNAL_EMAILS),
     name |-> OrDefault(r.md.donor_name, "N/A"),
     amount |-> toFixed2(r.amount),
     email |-> OrDefault(r.donorEmail, "N/A"),
     dedication |-> OrDefault(r.md.dedication, ""),
     mailSettings |-> mailSettings]

\* variant: the internal guard lacks the API-key test
InternalDueNoKey == Truthy(env.INTERNAL_EMAILS)

\* guard of the internal message
InternalDue == Truthy(env.SENDGRID_API_KEY) /\ Truthy(env.INTERNAL_EMAILS)

\* variant: the donor message is skipped once any delivery has sent it
DonorDueOnce(donorEmail) ==
    /\ Truthy(env.SENDGRID_API_KEY)
    /\ Truthy(donorEmail)
    /\ \A d \in Deliveries : req[d].donorSend = "none"

\* guard of the donor message
DonorDue(donorEmail) == Truthy(env.SENDGRID_API_KEY) /\ Truthy(donorEmail)

\* variant: the internal send is not awaited, the response goes out at once
SendInternalNoAwait(r) ==
    Respond([r EXCEPT !.internalSend = "pending", !.internalMsg = {internalMsg(r)}], 200)

\* await sgMail.send(internalMsg): the handler suspends on the send
SendInternal(r) ==
    [r EXCEPT !.pc = "internal", !.internalSend = "pending",
              !.internalMsg = {internalMsg(r)}]

\* the internal-email block, then the final response
InternalEmail(r) == IF InternalDue THEN SendInternal(r) ELSE Respond(r, 200)

\* variant: both sends are issued before the handler suspends
SendDonorConcurrent(r) ==
    [r EXCEPT !.pc = "donor", !.donorSend = "pending", !.donorMsg = {donorMsg(r)},
              !.internalSend = IF InternalDue THEN "pending" ELSE @]

\* await sgMail.send(donorMsg): the handler suspends on the send
SendDonor(r) ==
    [r EXCEPT !.pc = "donor", !.donorSend = "pending",
              !.donorMsg = {donorMsg(r)}]

\* variant: the internal-email block is nested in the donor-email block
DonorThenInternalNested(r) ==
    IF DonorDue(r.donorEmail) THEN SendDonor(r) ELSE Respond(r, 200)

\* the donor-email block, then the internal-email block
DonorThenInternal(r) == IF DonorDue(r.donorEmail) THEN SendDonor(r) ELSE InternalEmail(r)

\* variant: a rejected donor send reaches the outer catch
DonorSettledThrows(r, ok) ==
    IF ok THEN InternalEmail([r EXCEPT !.donorSend = "ok"])
    ELSE Respond([r EXCEPT !.donorSend = "failed"], 500)

\* the try/catch around the donor send: either outcome goes on
DonorSettled(r, ok) ==
    InternalEmail([r EXCEPT !.donorSend = IF ok THEN "ok" ELSE "failed"])

\* variant: a rejected internal send reaches the outer catch
InternalSettledThrows(r, ok) ==
    Respond([r EXCEPT !.internalSend = IF ok THEN "ok" ELSE "failed"],
            IF ok THEN 200 ELSE 500)

\* the try/catch around the internal send: either outcome goes on
InternalSettled(r, ok) ==
    Respond([r EXCEPT !.internalSend = IF ok THEN "ok" ELSE "failed"], 200)

\* checkout.session.completed
CheckoutBranch(r, session) ==
    DonorThenInternal([r EXCEPT !.donorEmail = session.customer_email,
                                !.md = OrEmptyMd(session.metadata),
                                !.amount = session.amount_total])

\* variant: the invoice reference of the payment intent is ignored
PiSkippedNever(pi) == FALSE

\* the payment intent belongs to a subscription invoice
PiSkipped(pi) == Truthy(pi.invoice)

\* variant: the early response lacks its return
PaymentIntentBranchNoReturn(r, pi) ==
    DonorThenInternal([(IF PiSkipped(pi) THEN Respond(r, 200) ELSE r)
                          EXCEPT !.donorEmail = OrNull(pi.receipt_email),
                                 !.md = OrEmptyMd(pi.metadata),
                                 !.amount = pi.amount])

\* payment_intent.succeeded
PaymentIntentBranch(r, pi) ==
    IF PiSkipped(pi)
    THEN Respond(r, 200)
    ELSE DonorThenInternal([r EXCEPT !.donorEmail = OrNull(pi.receipt_email),
                                     !.md = OrEmptyMd(pi.metadata),
                                     !.amount = pi.amount])

\* variant: the subscription is looked up whatever the invoice says
HasSubscriptionAlways(invoice) == TRUE

\* the invoice references a subscription to expand
HasSubscription(invoice) == Truthy(invoice.subscription)

\* variant: the amount is read from a field the invoice does not carry
InvoiceBranchAmountTotal(r, invoice) ==
    LET r1 == [r EXCEPT !.donorEmail = OrNull(invoice.customer_email),
                        !.md = EmptyMd,
                        !.amount = invoice.amount_total]
    IN  IF HasSubscription(invoice)
        THEN [r1 EXCEPT !.pc = "sub", !.subLookup = "pending"]
        ELSE DonorThenInternal(r1)

\* invoice.payment_succeeded, up to the first await
InvoiceBranch(r, invoice) ==
    LET r1 == [r EXCEPT !.donorEmail = OrNull(invoice.customer_email),
                        !.md = EmptyMd,
                        !.amount = invoice.amount_paid]
    IN  IF HasSubscription(invoice)
        THEN [r1 EXCEPT !.pc = "sub", !.subLookup = "pending"]
        ELSE DonorThenInternal(r1)

\* variant: the customer is looked up even when the invoice has an email
NeedsCustomerAlways(donorEmail, sub) == Truthy(sub.customer)

\* the subscription's customer is looked up for an email
NeedsCustomer(donorEmail, sub) == ~Truthy(donorEmail) /\ Truthy(sub.customer)

\* stripe.subscriptions.retrieve resolved
SubscriptionResolved(r, sub) ==
    LET r1 == [r EXCEPT !.subLookup = "ok", !.sub = {sub}, !.md = OrEmptyMd(sub.metadata)]
    IN  IF NeedsCustomer(r1.donorEmail, sub)
        THEN [r1 EXCEPT !.pc = "cust", !.custLookup = "pending"]
        ELSE DonorThenInternal(r1)

\* variant: a rejected subscription lookup ends the handling without messages
SubscriptionRejectedAbort(r) == Respond([r EXCEPT !.subLookup = "failed"], 200)

\* stripe.subscriptions.retrieve rejected: caught, logged, handling goes on
SubscriptionRejected(r) == DonorThenInternal([r EXCEPT !.subLookup = "failed"])

\* stripe.customers.retrieve resolved
CustomerResolved(r, customer) ==
    DonorThenInternal([r EXCEPT !.custLookup = "ok",
                                !.donorEmail = IF Truthy(customer.email)
                                               THEN customer.email ELSE @])

\* variant: the metadata is dropped when the customer lookup is rejected
CustomerRejectedResetsMd(r) ==
    DonorThenInternal([r EXCEPT !.custLookup = "failed", !.md = EmptyMd])

\* stripe.customers.retrieve rejected: caught, logged, handling goes on
CustomerRejected(r) == DonorThenInternal([r EXCEPT !.custLookup = "failed"])

\* variant: an unrecognized type is handled as a payment intent
BranchDefault(type) ==
    IF type \in {"checkout.session.completed", "invoice.payment_succeeded"}
    THEN type ELSE "payment_intent.succeeded"

\* the branch an event type selects
Branch(type) ==
    IF type \in {"checkout.session.completed", "payment_intent.succeeded",
                 "invoice.payment_succeeded"}
    THEN type ELSE "none"

\* the three if-blocks on event.type and the final 200
Dispatch(r, ev) ==
    CASE Branch(ev.type) = "checkout.session.completed" -> CheckoutBranch(r, ev.object)
      [] Branch(ev.type) = "payment_intent.succeeded" -> PaymentIntentBranch(r, ev.object)
      [] Branch(ev.type) = "invoice.payment_succeeded" -> InvoiceBranch(r, ev.object)
      [] OTHER -> Respond(r, 200)

\* variant: the signature is not checked
VerifiedAlways(sig) == TRUE

\* stripe.webhooks.constructEvent returns the event instead of throwing
Verified(sig) == sig = ValidSignature

\* the handler from the arrival of the request to its first await or response
Handle(r, sig) ==
    LET r1 == [r EXCEPT !.sig = sig]
    IN  IF Verified(sig) THEN Dispatch(r1, event) ELSE Respond(r1, 400)

\* -------------------------------------------------------------------- actions
\* no creation endpoint is under way
IdleGateway == [op |-> "none", pc |-> "idle"]

Init ==
    /\ env \in Envs
    /\ event \in Events
    /\ req = [d \in Deliveries |-> IdleRequest]
    /\ gw = IdleGateway

\* a POST /webhook request arrives
Webhook(d) ==
    /\ req[d].pc = "idle"
    /\ \E sig \in Signatures : req' = [req EXCEPT ![d] = Handle(@, sig)]
    /\ UNCHANGED <<env, event, gw>>

SubscriptionRetrieved(d) ==
    /\ req[d].pc = "sub"
    /\ \E sub \in Subscriptions : req' = [req EXCEPT ![d] = SubscriptionResolved(@, sub)]
    /\ UNCHANGED <<env, event, gw>>

SubscriptionFailed(d) ==
    /\ req[d].pc = "sub"
    /\ req' = [req EXCEPT ![d] = SubscriptionRejected(@)]
    /\ UNCHANGED <<env, event, gw>>

CustomerRetrieved(d) ==
    /\ req[d].pc = "cust"
    /\ \E customer \in Customers : req' = [req EXCEPT ![d] = CustomerResolved(@, customer)]
    /\ UNCHANGED <<env, event, gw>>

CustomerFailed(d) ==
    /\ req[d].pc = "cust"
    /\ req' = [req EXCEPT ![d] = CustomerRejected(@)]
    /\ UNCHANGED <<env, event, gw>>

DonorSendSettled(d) ==
    /\ req[d].pc = "donor"
    /\ \E ok \in BOOLEAN : req' = [req EXCEPT ![d] = DonorSettled(@, ok)]
    /\ UNCHANGED <<env, event, gw>>

InternalSendSettled(d) ==
    /\ req[d].pc = "internal"
    /\ \E ok \in BOOLEAN : req' = [req EXCEPT ![d] = InternalSettled(@, ok)]
    /\ UNCHANGED <<env, event, gw>>

Next ==
    \E d \in Deliveries :
        \/ Webhook(d)
        \/ SubscriptionRetrieved(d)
        \/ SubscriptionFailed(d)
        \/ CustomerRetrieved(d)
        \/ CustomerFailed(d)
        \/ DonorSendSettled(d)
        \/ InternalSendSettled(d)

Spec == Init /\ [][Next]_vars

TypeOK ==
    /\ env \in Envs
    /\ event \in Events
    /\ \A d \in Deliveries :
        /\ req[d].pc \in {"idle", "sub", "cust", "donor", "internal", "done"}
        /\ req[d].status \in {0, 200, 400}
        /\ req[d].subLookup \in CallStates
        /\ req[d].custLookup \in CallStates
        /\ req[d].donorSend \in CallStates
        /\ req[d].internalSend \in CallStates

\* ------------------------------------------------------- computeGrossCents
\* largest base amount (in cents) drawn for the amount calculator
MaxBaseCents == 2000

\* the webhook side while a creation endpoint is exercised: no delivery
QuietWebhook ==
    /\ env = [SENDGRID_API_KEY |-> "", INTERNAL_EMAILS |-> "", NODE_ENV |-> ""]
    /\ event = [type |-> "charge.refunded", object |-> BlankObject]
    /\ req = [d \in Deliveries |-> IdleRequest]

\* Math.ceil(n / d) for integers n >= 0, d > 0
MathCeil(n, d) == IF n % d = 0 THEN n \div d ELSE (n \div d) + 1

\* variant: the quotient is rounded to the nearest integer
MathRound(n, d) == (2 * n + d) \div (2 * d)

\* variant: Math.round where the source has Math.ceil
computeGrossCentsRounded(baseAmountCents, coverFees) ==
    IF ~coverFees THEN baseAmountCents
    ELSE MathRound(1000 * (baseAmountCents + 30), 971)

\* computeGrossCents(baseAmountCents, { coverFees }).  The divisor 1 - 0.029
\* is 971/1000: the double it evaluates to is below 0.971 by less than 3e-17,
\* and for amounts up to MaxBaseCents the double quotient is the exact
\* quotient when that is an integer and lies strictly between the same two
\* integers otherwise, so Math.ceil yields the ceiling of 1000(b + 30)/971.
computeGrossCents(baseAmountCents, coverFees) ==
    IF ~coverFees THEN baseAmountCents
    ELSE MathCeil(1000 * (baseAmountCents + 30), 971)

InitGross ==
    /\ QuietWebhook
    /\ \E b \in 0..MaxBaseCents, c \in BOOLEAN :
          gw = [op |-> "computeGrossCents", pc |-> "call",
                baseAmountCents |-> b, coverFees |-> c, result |-> 0]

\* the call returns
ComputeGross ==
    /\ gw.op = "computeGrossCents" /\ gw.pc = "call"
    /\ gw' = [gw EXCEPT !.pc = "returned",
                        !.result = computeGrossCents(gw.baseAmountCents, gw.coverFees)]
    /\ UNCHANGED <<env, event, req>>

NextGross == ComputeGross

SpecGross == InitGross /\ [][NextGross]_vars

\* ------------------------------------------------ POST /create-payment-intent
\* a numeric request field: absent (the empty set) or a number (a singleton);
\* the same encoding holds NaN (the empty set) after Number()
NoNumber == {}

\* req.body.amountCents
AmountCentsValues == {NoNumber, {0}, {500}, {1061}}

\* req.body.metadata.base_amount_cents
BaseAmountCentsValues == {NoNumber, {-100}, {0}, {1000}, {2000}}

\* Number(x || 0)
NumberOrZero(x) == IF x = NoNumber THEN 0 ELSE CHOOSE n \in x : TRUE

\* variant: a client-supplied amountCents wins over the recomputed total
totalCentsTrusting(base_amount_cents, coverFees, amountCents) ==
    IF amountCents # NoNumber THEN amountCents
    ELSE {computeGrossCents(NumberOrZero(base_amount_cents), coverFees)}

\* const base = Number(metadata.base_amount_cents || 0);
\* const totalCents = base > 0 ? computeGrossCents(base, { coverFees })
\*                             : Number(amountCents)
totalCents(base_amount_cents, coverFees, amountCents) ==
    LET base == NumberOrZero(base_amount_cents)
    IN  IF base > 0 THEN {computeGrossCents(base, coverFees)} ELSE amountCents

PaymentIntentBodies ==
    [amountCents : AmountCentsValues, coverFees : BOOLEAN,
     base_amount_cents : BaseAmountCentsValues]

InitPay ==
    /\ QuietWebhook
    /\ \E b \in PaymentIntentBodies :
          gw = [op |-> "create-payment-intent", pc |-> "idle", body |-> b,
                amount |-> NoNumber, calls |-> 0, status |-> 0]

\* the request arrives: the total is computed and the processor is called
CreatePaymentIntent ==
    /\ gw.op = "create-payment-intent" /\ gw.pc = "idle"
    /\ gw' = [gw EXCEPT !.pc = "paymentIntents.create",
                        !.calls = @ + 1,
                        !.amount = totalCents(gw.body.base_amount_cents,
                                              gw.body.coverFees, gw.body.amountCents)]
    /\ UNCHANGED <<env, event, req>>

\* stripe.paymentIntents.create resolves: res.json({ clientSecret })
PaymentIntentCreated ==
    /\ gw.op = "create-payment-intent" /\ gw.pc = "paymentIntents.create"
    /\ gw' = [gw EXCEPT !.pc = "done", !.status = 200]
    /\ UNCHANGED <<env, event, req>>

\* stripe.paymentIntents.create rejects: res.status(400).json({ error })
PaymentIntentRejected ==
    /\ gw.op = "create-payment-intent" /\ gw.pc = "paymentIntents.create"
    /\ gw' = [gw EXCEPT !.pc = "done", !.status = 400]
    /\ UNCHANGED <<env, event, req>>

NextPay == CreatePaymentIntent \/ PaymentIntentCreated \/ PaymentIntentRejected

SpecPay == InitPay /\ [][NextPay]_vars

\* -------------------------------------------------- POST /create-subscription
\* the processor calls of the endpoint, in the order of the source
SubscriptionSteps == <<"paymentMethods.attach", "customers.update", "subscriptions.create">>

SubscriptionBodies ==
    [customerId : {"cus_1", "cus_2"}, paymentMethodId : {"pm_1", "pm_2"},
     amountCents : {NoNumber, {500}, {2000}, {2550}}]

\* a processor call of the endpoint: its name and its arguments
ProcessorCall(name, body) ==
    [name |-> name, customer |-> body.customerId,
     paymentMethod |-> IF name = "subscriptions.create" THEN Null ELSE body.paymentMethodId,
     unit_amount |-> IF name = "subscriptions.create" THEN body.amountCents ELSE NoNumber]

InitSub ==
    /\ QuietWebhook
    /\ \E b \in SubscriptionBodies :
          gw = [op |-> "create-subscription", pc |-> 0, body |-> b,
                calls |-> << >>, settled |-> << >>, status |-> 0, json |-> "none"]

\* variant: a rejected call is logged and the handler goes on to the next
SubscriptionStepRejectedGoesOn(g) ==
    LET g1 == [g EXCEPT !.settled = Append(@, "rejected")]
    IN  IF g.pc < Len(SubscriptionSteps)
        THEN [g1 EXCEPT !.pc = @ + 1,
                        !.calls = Append(@, ProcessorCall(SubscriptionSteps[g.pc + 1], g.body))]
        ELSE [g1 EXCEPT !.pc = Len(SubscriptionSteps) + 1, !.status = 200,
                        !.json = "subscriptionId,status"]

\* the awaited call rejects: catch (err), res.status(400).json({ error })
SubscriptionStepRejected(g) ==
    [g EXCEPT !.settled = Append(@, "rejected"),
              !.pc = Len(SubscriptionSteps) + 1, !.status = 400, !.json = "error"]

\* the awaited call resolves: the next call is made, or after the last one
\* res.json({ subscriptionId, status })
SubscriptionStepResolved(g) ==
    LET g1 == [g EXCEPT !.settled = Append(@, "resolved")]
    IN  IF g.pc < Len(SubscriptionSteps)
        THEN [g1 EXCEPT !.pc = @ + 1,
                        !.calls = Append(@, ProcessorCall(SubscriptionSteps[g.pc + 1], g.body))]
        ELSE [g1 EXCEPT !.pc = Len(SubscriptionSteps) + 1, !.status = 200,
                        !.json = "subscriptionId,status"]

\* the request arrives: await stripe.paymentMethods.attach(...)
CreateSubscription ==
    /\ gw.op = "create-subscription" /\ gw.pc = 0
    /\ gw' = [gw EXCEPT !.pc = 1,
                        !.calls = <<ProcessorCall(SubscriptionSteps[1], gw.body)>>]
    /\ UNCHANGED <<env, event, req>>

\* the call the handler awaits resolves
StepResolved ==
    /\ gw.op = "create-subscription" /\ gw.pc \in 1..Len(SubscriptionSteps)
    /\ gw' = SubscriptionStepResolved(gw)
    /\ UNCHANGED <<env, event, req>>

\* the call the handler awaits rejects
StepRejected ==
    /\ gw.op = "create-subscription" /\ gw.pc \in 1..Len(SubscriptionSteps)
    /\ gw' = SubscriptionStepRejected(gw)
    /\ UNCHANGED <<env, event, req>>

NextSub == CreateSubscription \/ StepResolved \/ StepRejected

SpecSub == InitSub /\ [][NextSub]_vars

\* ------------------------------------------------------------------- claims

\* C1: a delivery whose signature verification failed (bad or missing header)
\* is answered 400, and no email send and no subscription or customer lookup
\* is made in it.
C1_SignatureFailure ==
    \A d \in Deliveries :
        (req[d].pc # "idle" /\ req[d].sig # ValidSignature) =>
            /\ req[d].pc = "done"
            /\ req[d].status = 400
            /\ req[d].donorSend = "none" /\ req[d].internalSend = "none"
            /\ req[d].subLookup = "none" /\ req[d].custLookup = "none"
            /\ req[d].donorMsg = NoObj /\ req[d].internalMsg = NoObj

\* a request without signature header for an invoice event that would
\* otherwise need a lookup and both messages has been answered 400
C1_Witness ==
    \E d \in Deliveries :
        /\ req[d].pc = "done" /\ req[d].sig = Null /\ req[d].status = 400
        /\ event.type = "invoice.payment_succeeded"
        /\ Truthy(event.object.subscription) /\ Truthy(event.object.customer_email)
        /\ Truthy(env.SENDGRID_API_KEY) /\ Truthy(env.INTERNAL_EMAILS)

\* C2: a verified payment_intent.succeeded event whose payment intent has a
\* non-empty invoice reference causes no email send and is answered 200,
\* whatever the receipt email, the metadata and the configuration are.
C2_InvoiceLinkedIntentSkipped ==
    \A d \in Deliveries :
        (/\ req[d].pc # "idle" /\ req[d].sig = ValidSignature
         /\ event.type = "payment_intent.succeeded"
         /\ Truthy(event.object.invoice)) =>
            /\ req[d].pc = "done"
            /\ req[d].status = 200
            /\ req[d].donorSend = "none" /\ req[d].internalSend = "none"
            /\ req[d].donorMsg = NoObj /\ req[d].internalMsg = NoObj

\* an invoice-linked payment intent with a receipt email has been answered
\* while the transport and the internal recipients are configured
C2_Witness ==
    \E d \in Deliveries :
        /\ req[d].pc = "done" /\ req[d].sig = ValidSignature /\ req[d].status = 200
        /\ event.type = "payment_intent.succeeded"
        /\ Truthy(event.object.invoice) /\ Truthy(event.object.receipt_email)
        /\ Truthy(env.SENDGRID_API_KEY) /\ Truthy(env.INTERNAL_EMAILS)

\* C3: on a recognized path that is not short-circuited, when both messages
\* are due, both sends are attempted whatever the outcome of the other: once
\* the donor send has settled (resolved or rejected) the internal send has
\* been started, and a settled internal send leaves the donor send settled.
C3_SendsIndependent ==
    \A d \in Deliveries :
        (/\ req[d].sig = ValidSignature
         /\ req[d].pc \in {"donor", "internal", "done"}
         /\ event.type \in {"checkout.session.completed", "payment_intent.succeeded",
                            "invoice.payment_succeeded"}
         /\ ~(event.type = "payment_intent.succeeded" /\ Truthy(event.object.invoice))
         /\ Truthy(env.SENDGRID_API_KEY) /\ Truthy(env.INTERNAL_EMAILS)
         /\ Truthy(req[d].donorEmail)) =>
            /\ req[d].donorSend # "none" /\ req[d].donorMsg # NoObj
            /\ req[d].donorSend \in {"ok", "failed"} =>
                  (req[d].internalSend # "none" /\ req[d].internalMsg # NoObj)
            /\ req[d].internalSend # "none" => req[d].donorSend \in {"ok", "failed"}
            /\ req[d].pc = "done" =>
                  /\ req[d].donorSend \in {"ok", "failed"}
                  /\ req[d].internalSend \in {"ok", "failed"}

\* the donor send was rejected and the internal send was made all the same
C3_Witness ==
    \E d \in Deliveries :
        /\ req[d].pc = "done"
        /\ req[d].donorSend = "failed"
        /\ req[d].internalSend \in {"ok", "failed"}

\* C4: every delivery that passed signature verification is answered 200,
\* whatever the outcomes of the donor send, the internal send, the
\* subscription lookup and the customer lookup were; never 400 or 500.
C4_VerifiedAlways200 ==
    \A d \in Deliveries :
        (req[d].sig = ValidSignature /\ req[d].status # 0) => req[d].status = 200

\* answered 200 after a rejected subscription lookup and two rejected sends
C4_Witness ==
    \E d \in Deliveries :
        /\ req[d].sig = ValidSignature /\ req[d].status = 200
        /\ req[d].subLookup = "failed"
        /\ req[d].donorSend = "failed" /\ req[d].internalSend = "failed"

\* C5: on the invoice path a rejected subscription or customer lookup does
\* not abort the notification: the donor message is still sent to the
\* invoice's email when it has one, and the internal message is still sent
\* (after the donor send) when internal recipients are configured.
C5_LookupFailureProceeds ==
    \A d \in Deliveries :
        (/\ req[d].sig = ValidSignature
         /\ event.type = "invoice.payment_succeeded"
         /\ (req[d].subLookup = "failed" \/ req[d].custLookup = "failed")) =>
            /\ req[d].donorEmail = OrNull(event.object.customer_email)
            /\ (Truthy(env.SENDGRID_API_KEY) /\ Truthy(event.object.customer_email)) =>
                  /\ req[d].donorSend # "none"
                  /\ \E m \in req[d].donorMsg : m.to = <<event.object.customer_email>>
            /\ (Truthy(env.SENDGRID_API_KEY) /\ Truthy(env.INTERNAL_EMAILS)) =>
                  (req[d].internalSend # "none" \/ req[d].donorSend = "pending")
            /\ req[d].pc \in {"donor", "internal", "done"}

\* the subscription lookup was rejected and both messages were sent after it
C5_Witness ==
    \E d \in Deliveries :
        /\ req[d].pc = "done"
        /\ req[d].subLookup = "failed"
        /\ req[d].donorSend # "none" /\ req[d].internalSend # "none"

\* C6: a verified invoice.payment_succeeded event whose invoice has no
\* subscription reference causes no subscription or customer lookup; the
\* donor email used is the invoice's customer_email, the metadata used is
\* empty (name and dedication take their defaults in both messages), and
\* the sends are still made.
C6_InvoiceWithoutSubscription ==
    \A d \in Deliveries :
        (/\ req[d].pc # "idle" /\ req[d].sig = ValidSignature
         /\ event.type = "invoice.payment_succeeded"
         /\ ~Truthy(event.object.subscription)) =>
            /\ req[d].subLookup = "none" /\ req[d].custLookup = "none"
            /\ req[d].md = EmptyMd
            /\ req[d].donorEmail = OrNull(event.object.customer_email)
            /\ \A m \in req[d].donorMsg :
                  /\ m.to = <<event.object.customer_email>>
                  /\ m.name = "Friend" /\ m.dedication = ""
            /\ \A m \in req[d].internalMsg :
                  /\ m.email = OrDefault(event.object.customer_email, "N/A")
                  /\ m.name = "N/A" /\ m.dedication = ""
            /\ (Truthy(env.SENDGRID_API_KEY) /\ Truthy(event.object.customer_email)) =>
                  (req[d].donorSend # "none" /\ req[d].donorMsg # NoObj)
            /\ (Truthy(env.SENDGRID_API_KEY) /\ Truthy(env.INTERNAL_EMAILS)) =>
                  \/ req[d].donorSend = "pending"
                  \/ (req[d].internalSend # "none" /\ req[d].internalMsg # NoObj)

\* an invoice without subscription has been notified to donor and staff
C6_Witness ==
    \E d \in Deliveries :
        /\ req[d].pc = "done" /\ req[d].sig = ValidSignature
        /\ event.type = "invoice.payment_succeeded"
        /\ ~Truthy(event.object.subscription)
        /\ req[d].donorSend # "none" /\ req[d].internalSend # "none"

\* C7: a verified event whose type is none of checkout.session.completed,
\* payment_intent.succeeded, invoice.payment_succeeded causes no email send
\* and no lookup and is answered 200.
C7_UnrecognizedTypeNoOp ==
    \A d \in Deliveries :
        (/\ req[d].pc # "idle" /\ req[d].sig = ValidSignature
         /\ event.type \notin {"checkout.session.completed", "payment_intent.succeeded",
                               "invoice.payment_succeeded"}) =>
            /\ req[d].pc = "done"
            /\ req[d].status = 200
            /\ req[d].donorSend = "none" /\ req[d].internalSend = "none"
            /\ req[d].subLookup = "none" /\ req[d].custLookup = "none"

\* an event of another type has been answered while email is configured
C7_Witness ==
    \E d \in Deliveries :
        /\ req[d].pc = "done" /\ req[d].sig = ValidSignature /\ req[d].status = 200
        /\ event.type = "charge.refunded"
        /\ Truthy(env.SENDGRID_API_KEY) /\ Truthy(env.INTERNAL_EMAILS)

\* C8: no deduplication: when the same verified payment_intent.succeeded
\* event (no invoice reference) is delivered several times, in any
\* interleaving, every finished delivery has attempted each due message
\* once itself (as many donor sends and as many internal sends as there
\* are finished deliveries) and has been answered 200 once.
C8_NoDeduplication ==
    LET V == {d \in Deliveries : req[d].sig = ValidSignature /\ req[d].pc = "done"}
        donorDue == Truthy(env.SENDGRID_API_KEY) /\ Truthy(event.object.receipt_email)
        internalDue == Truthy(env.SENDGRID_API_KEY) /\ Truthy(env.INTERNAL_EMAILS)
    IN  (event.type = "payment_intent.succeeded" /\ ~Truthy(event.object.invoice)) =>
            /\ \A d \in V : req[d].status = 200 /\ req[d].responses = 1
            /\ Cardinality({d \in V : req[d].donorSend \in {"ok", "failed"}})
                 = IF donorDue THEN Cardinality(V) ELSE 0
            /\ Cardinality({d \in V : req[d].internalSend \in {"ok", "failed"}})
                 = IF internalDue THEN Cardinality(V) ELSE 0
            /\ \A d \in V : Cardinality(req[d].donorMsg) = (IF donorDue THEN 1 ELSE 0)
            /\ \A d \in V : Cardinality(req[d].internalMsg) = (IF internalDue THEN 1 ELSE 0)

\* the same payment intent was delivered to every delivery slot, at least
\* twice, and each delivery sent both messages
C8_Witness ==
    /\ event.type = "payment_intent.succeeded" /\ ~Truthy(event.object.invoice)
    /\ Cardinality(Deliveries) >= 2
    /\ \A d \in Deliveries :
        /\ req[d].sig = ValidSignature /\ req[d].pc = "done" /\ req[d].status = 200
        /\ req[d].donorSend \in {"ok", "failed"}
        /\ req[d].internalSend \in {"ok", "failed"}

\* C9: once the response of a delivery has been sent, no donor or internal
\* send of that delivery is still in flight.
C9_NoSendInFlightAfterResponse ==
    \A d \in Deliveries :
        req[d].status # 0 =>
            (req[d].donorSend # "pending" /\ req[d].internalSend # "pending")

\* the response was sent after both sends had settled
C9_Witness ==
    \E d \in Deliveries :
        /\ req[d].status = 200 /\ req[d].responses = 1
        /\ req[d].donorSend \in {"ok", "failed"}
        /\ req[d].internalSend \in {"ok", "failed"}

\* C10 as stated: when both messages are due the two sends are issued
\* concurrently, so while the donor send is in flight the internal send is
\* in flight too.
C10_SendsConcurrent ==
    \A d \in Deliveries :
        (/\ req[d].donorSend = "pending"
         /\ Truthy(env.SENDGRID_API_KEY) /\ Truthy(env.INTERNAL_EMAILS)) =>
            req[d].internalSend = "pending"

\* C10 as amended: the two sends of a delivery are issued one after the
\* other: the internal send is started only once the donor send has
\* settled, so the two are never in flight at once.
C10_SendsSequential ==
    \A d \in Deliveries :
        /\ req[d].donorSend = "pending" => req[d].internalSend = "none"
        /\ (req[d].internalSend # "none" /\ req[d].donorMsg # NoObj) =>
              req[d].donorSend \in {"ok", "failed"}

\* the internal send is in flight after the donor send settled
C10_Witness ==
    \E d \in Deliveries :
        /\ req[d].internalSend = "pending"
        /\ req[d].donorSend \in {"ok", "failed"}

\* C11: computeGrossCents returns baseAmountCents unchanged when fees are not
\* covered, and otherwise the smallest integer g with
\* 971 * g >= 1000 * (baseAmountCents + 30); 1000 gives 1061 and 0 gives 31.
C11_GrossIsLeastCovering ==
    (gw.op = "computeGrossCents" /\ gw.pc = "returned") =>
        /\ ~gw.coverFees => gw.result = gw.baseAmountCents
        /\ gw.coverFees =>
              /\ 971 * gw.result >= 1000 * (gw.baseAmountCents + 30)
              /\ 971 * (gw.result - 1) < 1000 * (gw.baseAmountCents + 30)
        /\ (gw.coverFees /\ gw.baseAmountCents = 1000) => gw.result = 1061
        /\ (gw.coverFees /\ gw.baseAmountCents = 0) => gw.result = 31

\* the gross of 1000 with fees covered has been computed
C11_Witness ==
    /\ gw.op = "computeGrossCents" /\ gw.pc = "returned"
    /\ gw.coverFees /\ gw.baseAmountCents = 1000 /\ gw.result = 1061

\* C12 as stated: whenever metadata.base_amount_cents is present in the
\* request, the amount passed to the processor is
\* computeGrossCents(base_amount_cents, coverFees), whatever amountCents is;
\* amountCents is used verbatim only when base_amount_cents is absent.
C12_PresentBaseDecidesAmount ==
    (gw.op = "create-payment-intent" /\ gw.calls > 0) =>
        /\ gw.body.base_amount_cents # NoNumber =>
              \A b \in gw.body.base_amount_cents :
                  gw.amount = {computeGrossCents(b, gw.body.coverFees)}
        /\ gw.body.base_amount_cents = NoNumber => gw.amount = gw.body.amountCents

\* C12 as amended: whenever metadata.base_amount_cents is present and greater
\* than zero, the amount passed to the processor is
\* computeGrossCents(base_amount_cents, coverFees), whatever amountCents is;
\* when it is absent or not greater than zero, amountCents is used verbatim.
C12_PositiveBaseDecidesAmount ==
    (gw.op = "create-payment-intent" /\ gw.calls > 0) =>
        /\ \A b \in gw.body.base_amount_cents :
              b > 0 => gw.amount = {computeGrossCents(b, gw.body.coverFees)}
        /\ (\A b \in gw.body.base_amount_cents : b <= 0) =>
              gw.amount = gw.body.amountCents

\* a request with base 1000, fees covered and a lower client amount was
\* charged the recomputed 1061
C12_Witness ==
    /\ gw.op = "create-payment-intent" /\ gw.pc = "done" /\ gw.status = 200
    /\ gw.body.base_amount_cents = {1000} /\ gw.body.coverFees
    /\ gw.body.amountCents = {500}
    /\ gw.amount = {1061}

\* C13: on a recognized path that is not short-circuited, with the email
\* transport configured, the donor send is made exactly when a donor email
\* is present after extraction and enrichment, and the internal send exactly
\* when an internal recipient list is configured; an event without donor
\* email still gets the internal message and never a donor send.
C13_SendsExactlyWhenDue ==
    \A d \in Deliveries :
        (/\ req[d].sig = ValidSignature /\ req[d].pc = "done"
         /\ event.type \in {"checkout.session.completed", "payment_intent.succeeded",
                            "invoice.payment_succeeded"}
         /\ ~(event.type = "payment_intent.succeeded" /\ Truthy(event.object.invoice))
         /\ Truthy(env.SENDGRID_API_KEY)) =>
            /\ req[d].donorSend \in {"ok", "failed"} <=> Truthy(req[d].donorEmail)
            /\ req[d].donorMsg # NoObj <=> Truthy(req[d].donorEmail)
            /\ req[d].internalSend \in {"ok", "failed"} <=> Truthy(env.INTERNAL_EMAILS)
            /\ req[d].internalMsg # NoObj <=> Truthy(env.INTERNAL_EMAILS)
            /\ event.type = "checkout.session.completed" =>
                  req[d].donorEmail = event.object.customer_email
            /\ event.type = "payment_intent.succeeded" =>
                  req[d].donorEmail = OrNull(event.object.receipt_email)
            /\ (event.type = "invoice.payment_succeeded" /\ req[d].custLookup # "ok") =>
                  req[d].donorEmail = OrNull(event.object.customer_email)

\* an event without donor email produced the internal message only
C13_Witness ==
    \E d \in Deliveries :
        /\ req[d].sig = ValidSignature /\ req[d].pc = "done"
        /\ ~Truthy(req[d].donorEmail)
        /\ req[d].donorSend = "none"
        /\ req[d].internalSend \in {"ok", "failed"}

\* C14: POST /create-subscription calls the processor in the order attach
\* payment method, set it as the customer's default, create subscription;
\* each call is made only after the previous one resolved; a rejected call
\* yields 400 and no later call; {subscriptionId, status} is sent only after
\* all three resolved.
C14_SubscriptionStepsInOrder ==
    gw.op = "create-subscription" =>
        /\ Len(gw.calls) <= 3
        /\ \A i \in 1..Len(gw.calls) :
              /\ gw.calls[i].name =
                    <<"paymentMethods.attach", "customers.update", "subscriptions.create">>[i]
              /\ gw.calls[i].customer = gw.body.customerId
              /\ i > 1 => (Len(gw.settled) >= i - 1 /\ gw.settled[i - 1] = "resolved")
        /\ Len(gw.settled) <= Len(gw.calls)
        /\ (\E i \in 1..Len(gw.settled) : gw.settled[i] = "rejected") =>
              /\ gw.status = 400 /\ gw.json = "error"
              /\ Len(gw.calls) = Len(gw.settled)
              /\ gw.settled[Len(gw.settled)] = "rejected"
        /\ gw.status = 400 =>
              (Len(gw.settled) > 0 /\ gw.settled[Len(gw.settled)] = "rejected")
        /\ gw.status = 200 =>
              /\ gw.json = "subscriptionId,status"
              /\ gw.settled = <<"resolved", "resolved", "resolved">>
        /\ gw.status \in {0, 200, 400}

\* the second call was rejected: 400, and the subscription was not created
C14_Witness ==
    /\ gw.op = "create-subscription"
    /\ gw.status = 400
    /\ gw.settled = <<"resolved", "rejected">>
    /\ Len(gw.calls) = 2

\* C15: every message handed to the email transport, donor or internal, on
\* any webhook path, carries the sandbox-mode setting if and only if the
\* process runs in non-production mode.
C15_SandboxIffNonProduction ==
    \A d \in Deliveries :
        \A m \in req[d].donorMsg \cup req[d].internalMsg :
            /\ m.mailSettings \in {{}, {"sandboxMode"}}
            /\ m.mailSettings = {"sandboxMode"} <=> env.NODE_ENV # "production"

\* both messages of a delivery were sent marked outside production
C15_Witness ==
    \E d \in Deliveries :
        /\ env.NODE_ENV # "production"
        /\ req[d].donorSend \in {"ok", "failed"}
        /\ req[d].internalSend \in {"ok", "failed"}
        /\ \A m \in req[d].donorMsg \cup req[d].internalMsg :
              m.mailSettings = {"sandboxMode"}

\* C16: on the invoice path the customer lookup is made only after the
\* subscription lookup resolved, and only when the invoice references a
\* subscription, the invoice gave no donor email and the subscription names
\* a customer; when the invoice carries customer_email no customer lookup is
\* made and the invoice's email is the one used.
C16_CustomerLookupOnlyWhenNeeded ==
    \A d \in Deliveries :
        /\ req[d].custLookup # "none" =>
              /\ req[d].sig = ValidSignature
              /\ event.type = "invoice.payment_succeeded"
              /\ req[d].subLookup = "ok"
              /\ Truthy(event.object.subscription)
              /\ ~Truthy(event.object.customer_email)
              /\ \E s \in req[d].sub : Truthy(s.customer)
        /\ (/\ event.type = "invoice.payment_succeeded"
            /\ Truthy(event.object.customer_email)
            /\ req[d].sig = ValidSignature /\ req[d].pc # "idle") =>
              /\ req[d].custLookup = "none"
              /\ req[d].donorEmail = event.object.customer_email
              /\ \A m \in req[d].donorMsg : m.to = <<event.object.customer_email>>
              /\ \A m \in req[d].internalMsg : m.email = event.object.customer_email

\* the customer was looked up after the subscription, and handling finished
C16_Witness ==
    \E d \in Deliveries :
        /\ req[d].pc = "done"
        /\ req[d].subLookup = "ok" /\ req[d].custLookup = "ok"
        /\ Truthy(req[d].donorEmail)

\* C17: on the invoice path, when the subscription lookup resolved and the
\* customer lookup was rejected, the subscription's metadata is kept and
\* used, the donor email stays absent and only the internal message is
\* sent; when the subscription lookup itself was rejected the metadata used
\* is empty.
C17_PartialEnrichmentKept ==
    \A d \in Deliveries :
        /\ req[d].custLookup = "failed" =>
              /\ \E s \in req[d].sub :
                    /\ req[d].md = (IF s.metadata = NoObj THEN EmptyMd
                                    ELSE CHOOSE x \in s.metadata : TRUE)
                    /\ \A m \in req[d].internalMsg :
                          \A x \in s.metadata : m.name = x.donor_name
              /\ ~Truthy(req[d].donorEmail)
              /\ req[d].donorSend = "none" /\ req[d].donorMsg = NoObj
              /\ (Truthy(env.SENDGRID_API_KEY) /\ Truthy(env.INTERNAL_EMAILS)) =>
                    (req[d].internalSend # "none" /\ req[d].internalMsg # NoObj)
        /\ req[d].subLookup = "failed" =>
              /\ req[d].md = EmptyMd
              /\ req[d].sub = NoObj
              /\ \A m \in req[d].donorMsg : m.name = "Friend" /\ m.dedication = ""
              /\ \A m \in req[d].internalMsg : m.name = "N/A" /\ m.dedication = ""

\* the customer lookup was rejected after the subscription gave metadata,
\* and the internal message went out under the subscription's donor name
C17_Witness ==
    \E d \in Deliveries :
        /\ req[d].pc = "done"
        /\ req[d].custLookup = "failed"
        /\ req[d].md = MdAda
        /\ \E m \in req[d].internalMsg : m.name = "Ada"

\* C18: within a delivery the amount is taken once from the event
\* (amount_total of a checkout session, amount of a payment intent,
\* amount_paid of an invoice) and not changed afterwards: the amounts shown
\* in the donor message and in the internal message equal that field,
\* whatever lookups or send failures occur in between.
C18_AmountFromEventOnly ==
    LET field == CASE event.type = "checkout.session.completed" -> event.object.amount_total
                   [] event.type = "payment_intent.succeeded" -> event.object.amount
                   [] event.type = "invoice.payment_succeeded" -> event.object.amount_paid
                   [] OTHER -> 0
    IN  \A d \in Deliveries :
            (/\ req[d].sig = ValidSignature /\ req[d].pc # "idle"
             /\ ~(event.type = "payment_intent.succeeded" /\ Truthy(event.object.invoice))) =>
                /\ req[d].amount = field
                /\ \A m \in req[d].donorMsg \cup req[d].internalMsg :
                      /\ m.amount[2] \in 0..99
                      /\ 100 * m.amount[1] + m.amount[2] = field

\* an invoice of 25.50 was notified in both messages after a rejected
\* lookup and a rejected donor send
C18_Witness ==
    \E d \in Deliveries :
        /\ req[d].pc = "done"
        /\ event.type = "invoice.payment_succeeded" /\ event.object.amount_paid = 2550
        /\ req[d].subLookup = "failed" /\ req[d].donorSend = "failed"
        /\ \E m \in req[d].donorMsg : m.amount = <<25, 50>>
        /\ \E m \in req[d].internalMsg : m.amount = <<25, 50>>

\* C19: every POST /webhook request gets exactly one response, of status
\* 200, 400 or 500: never two, and a handler that has not responded is
\* suspended on exactly one pending call whose settling resumes it; 400 is
\* sent only when signature verification failed.
C19_ExactlyOneResponse ==
    \A d \in Deliveries :
        LET pending == {c \in {"subLookup", "custLookup", "donorSend", "internalSend"} :
                           req[d][c] = "pending"}
        IN  /\ req[d].responses <= 1
            /\ req[d].pc = "done" <=> req[d].responses = 1
            /\ req[d].responses = 1 <=> req[d].status # 0
            /\ req[d].responses = 1 => req[d].status \in {200, 400, 500}
            /\ req[d].status = 400 <=> (req[d].pc # "idle" /\ req[d].sig # ValidSignature)
            /\ req[d].pc \notin {"idle", "done"} => Cardinality(pending) = 1
            /\ req[d].pc \in {"idle", "done"} => pending = {}

\* the early return for an invoice-linked payment intent answered once
C19_Witness ==
    \E d \in Deliveries :
        /\ req[d].pc = "done" /\ req[d].responses = 1 /\ req[d].status = 200
        /\ req[d].sig = ValidSignature
        /\ event.type = "payment_intent.succeeded" /\ Truthy(event.object.invoice)

\* C20: when the email-transport API key is not configured no email send is
\* made on any webhook path, even with a donor email present and internal
\* recipients configured, and verified events are still answered 200.
C20_NoKeyNoSend ==
    ~Truthy(env.SENDGRID_API_KEY) =>
        \A d \in Deliveries :
            /\ req[d].donorSend = "none" /\ req[d].internalSend = "none"
            /\ req[d].donorMsg = NoObj /\ req[d].internalMsg = NoObj
            /\ (req[d].sig = ValidSignature /\ req[d].pc \notin {"idle", "sub", "cust"}) =>
                  (req[d].pc = "done" /\ req[d].status = 200)

\* without API key a checkout session with donor email and configured
\* internal recipients was answered 200
C20_Witness ==
    \E d \in Deliveries :
        /\ ~Truthy(env.SENDGRID_API_KEY) /\ Truthy(env.INTERNAL_EMAILS)
        /\ event.type = "checkout.session.completed"
        /\ Truthy(event.object.customer_email)
        /\ req[d].sig = ValidSignature /\ req[d].pc = "done" /\ req[d].status = 200
====
